---- MODULE Spec2Model ----
(***************************************************************************)
(* Model of forge/experiment_tools.py: the checkpoint-directory protocol   *)
(* of init_checkpoint and the checkpoint discovery of find_model_files.    *)
(*                                                                         *)
(* File and folder names are sequences of one-character strings, so that   *)
(* int(), str(), str.replace, str.split and the regular expression are     *)
(* computed on characters as the Python code computes them.                *)
(***************************************************************************)
EXTENDS Integers, Sequences, FiniteSets, TLC

\* ------------------------------------------------------------------ bounds
MaxCalls == 3
MaxCkpts == 2

\* ------------------------------------------------------- character helpers
Digits == {"0", "1", "2", "3", "4", "5", "6", "7", "8", "9"}

DigitVal ==
  [c \in Digits |->
     CASE c = "0" -> 0 [] c = "1" -> 1 [] c = "2" -> 2 [] c = "3" -> 3
       [] c = "4" -> 4 [] c = "5" -> 5 [] c = "6" -> 6 [] c = "7" -> 7
       [] c = "8" -> 8 [] c = "9" -> 9]

DigitChar == <<"0", "1", "2", "3", "4", "5", "6", "7", "8", "9">>

\* int(x) raises ValueError unless x is a non-empty run of digits
IsInt(s) == Len(s) > 0 /\ \A i \in 1..Len(s) : s[i] \in Digits

RECURSIVE ToInt(_)
ToInt(s) ==
  IF Len(s) = 0 THEN 0
  ELSE 10 * ToInt(SubSeq(s, 1, Len(s) - 1)) + DigitVal[s[Len(s)]]

RECURSIVE Str(_)
Str(n) ==
  IF n < 10 THEN <<DigitChar[n + 1]>>
  ELSE Str(n \div 10) \o <<DigitChar[(n % 10) + 1]>>

\* lexicographic order on character sequences of digits (a bare sorted())
RECURSIVE LexLeq(_, _)
LexLeq(a, b) ==
  IF Len(a) = 0 THEN TRUE
  ELSE IF Len(b) = 0 THEN FALSE
  ELSE IF a[1] = b[1] THEN LexLeq(Tail(a), Tail(b))
  ELSE DigitVal[a[1]] < DigitVal[b[1]]

SetMax(S) == CHOOSE x \in S : \A y \in S : y <= x

\* a merge in which the entries already in d win
DictUpdateKeepOld(d, u) ==
  [k \in (DOMAIN d) \cup (DOMAIN u) |-> IF k \in DOMAIN d THEN d[k] ELSE u[k]]

\* dict.update: the entries of d overridden by those of u
DictUpdate(d, u) ==
  [k \in (DOMAIN d) \cup (DOMAIN u) |-> IF k \in DOMAIN u THEN u[k] ELSE d[k]]

EmptyDict == [k \in {} |-> "0"]

\* ------------------------------------------------------- find_model_files
INDEX == <<".", "i", "n", "d", "e", "x">>
CKPT  == <<"c", "k", "p", "t", "-">>

\* f.replace('.index', ''): every occurrence is removed, left to right
RECURSIVE StripIndex(_)
StripIndex(s) ==
  IF Len(s) < Len(INDEX) THEN s
  ELSE IF SubSeq(s, 1, Len(INDEX)) = INDEX
       THEN StripIndex(SubSeq(s, Len(INDEX) + 1, Len(s)))
       ELSE <<s[1]>> \o StripIndex(Tail(s))

\* re.compile(r'.ckpt-[0-9]+$').search(s): any one character, the literal
\* "ckpt-", then one or more digits up to the end of the name
PatternSearch(s) ==
  \E i \in 1..Len(s) :
     /\ i + Len(CKPT) + 1 <= Len(s)
     /\ SubSeq(s, i + 1, i + Len(CKPT)) = CKPT
     /\ \A j \in (i + Len(CKPT) + 1)..Len(s) : s[j] \in Digits

\* model_path.split('-')[-1]
AfterLastDash(s) ==
  LET ds == {i \in 1..Len(s) : s[i] = "-"}
  IN IF ds = {} THEN s ELSE SubSeq(s, SetMax(ds) + 1, Len(s))

\* x.split('.')[0]
BeforeFirstDot(s) ==
  LET ds == {i \in 1..Len(s) : s[i] = "."}
  IN IF ds = {} THEN s
     ELSE SubSeq(s, 1, (CHOOSE i \in ds : \A j \in ds : i <= j) - 1)

extract_itr_from_modelfile(model_path) ==
  ToInt(BeforeFirstDot(AfterLastDash(model_path)))

\* os.path.join(dir, name)
Join(dir, name) == [dir |-> dir, name |-> name]

\* the filter applied to the names as listed, '.index' not removed
ModelFileNamesUnstripped(listing) ==
  {g \in listing : PatternSearch(g)}

\* lines 156-157: the names kept, stripped, then filtered by the pattern
ModelFileNames(listing) ==
  {g \in {StripIndex(f) : f \in listing} : PatternSearch(g)}

\* The dict comprehension keeps, for each iteration number, the last name in
\* os.listdir order; that order is arbitrary, so every choice is a result.
find_model_files(model_dir, listing) ==
  LET names == ModelFileNames(listing)
      keys  == {extract_itr_from_modelfile(g) : g \in names}
  IN {m \in [keys -> {Join(model_dir, g) : g \in names}] :
        \A i \in keys : extract_itr_from_modelfile(m[i].name) = i}

\* ------------------------------------------------------------ input data
Procs == {1, 2}

\* the process of the specification in which calls do not overlap
SeqProcs == {1}

\* names found under a checkpoint root
RESERVED_UNDERSCORE == <<"_", "t", "m", "p">>
RESERVED_DOT        == <<".", "g", "i", "t">>
NOT_A_NUMBER        == <<"l", "o", "g", "s">>

\* the two spellings of "how many runs were made before": none, or nine
PriorRunCounts == {0, 9}

\* checkpoint artifacts written by the training loop into a run folder
A_5       == <<"a", ".">> \o CKPT \o <<"5">>
A_5_INDEX == A_5 \o INDEX
B_12      == <<"b", ".">> \o CKPT \o <<"1", "2">>
C_9_INDEX == <<"c", ".">> \o CKPT \o <<"9">> \o INDEX
D_5       == <<"d", ".">> \o CKPT \o <<"5">>
A_5_META  == A_5 \o <<".", "m", "e", "t", "a">>
EVENTS    == <<"e", "v", "e", "n", "t", "s">>

CkptNames == {A_5, A_5_INDEX, B_12, C_9_INDEX, D_5, A_5_META, EVENTS}

\* what the training loop of the model writes: an index file without its
\* plain companion, and a checkpoint of a later iteration
TrainNames == {C_9_INDEX, B_12}

\* config sources: a path to a .py file, a path to a .py file that does not
\* exist, or an importable module name (no file of that name exists)
MODEL_PY == <<"m", "o", "d", "e", "l", ".", "p", "y">>
DATA_PY  == <<"d", "a", "t", "a", ".", "p", "y">>
GONE_PY  == <<"g", "o", "n", "e", ".", "p", "y">>
PKG_DATA == <<"p", "k", "g", ".", "d", "a", "t", "a">>

ModelPy     == [dir |-> "configs", base |-> MODEL_PY, kind |-> "py",      declares |-> {"lr"}]
DataPy      == [dir |-> "configs", base |-> DATA_PY,  kind |-> "py",      declares |-> {"bs"}]
DataModule  == [dir |-> "",        base |-> PKG_DATA, kind |-> "module",  declares |-> {"bs"}]
DataMissing == [dir |-> "configs", base |-> GONE_PY,  kind |-> "missing", declares |-> {}]

ModelConfigs == {ModelPy}
DataConfigs  == {DataPy, DataModule, DataMissing}

basename(src) == src.base

\* flag values are kept as strings; every flag defaults to "0"
FlagDefault == [k \in {"lr", "bs"} |-> "0"]
GIT_HASH    == "abc123"
FLAG_FILE   == <<"f", "l", "a", "g", "s", ".", "j", "s", "o", "n">>

\* what set_flags may append to sys.argv before a call
ArgChoices ==
  { {}, {[k |-> "lr", v |-> "1"]}, {[k |-> "zz", v |-> "1"]} }

\* outcome of subprocess.check_output(['git', 'rev-parse', 'HEAD'])
GitOutcomes == {"hash", "CalledProcessError", "OSError"}

\* a run folder: its Flag File (<<>> when absent, <<mapping>> when present),
\* the config copies and the other files in it
EmptyFolder == [flagfile |-> <<>>, configs |-> {}, files |-> {}]

\* the Flag File of a run made earlier with --lr=2 and a model config only
PriorFlags == [k \in {"lr", "git_commit"} |-> IF k = "lr" THEN "2" ELSE GIT_HASH]

PriorFolder == [flagfile |-> <<PriorFlags>>, configs |-> {MODEL_PY, DATA_PY}, files |-> {}]

\* ----------------------------------------------------------------- state
VARIABLES
  rootKind,           \* "absent", "file" or "dir": what checkpoint_dir is
  root,               \* entry name -> folder content, for a directory root
  pc,                 \* position of each process inside init_checkpoint
  resume,             \* argument resume of the current call
  model_config,       \* argument model_config
  data_config,        \* argument data_config
  experiment_folder,  \* local experiment_folder (<<>> until computed)
  flags,              \* local flags (the dict returned by parse_flags)
  ret,                \* returned (experiment_folder, resume_checkpoint)
  err,                \* the exception a failed call raised
  registry,           \* _flags.FLAGS.__dict__['__flags'] of each process
  declared,           \* flags declared by the config modules imported so far
  argv,               \* sys.argv[1:] of each process
  model_files,        \* <<m>>: the mapping a standalone find_model_files call returned
  made,               \* number of non-resuming calls made on this root
  calls               \* number of calls made in this behaviour

vars == <<rootKind, root, pc, resume, model_config, data_config,
          experiment_folder, flags, ret, err, registry, declared, argv,
          model_files, made, calls>>

fsvars   == <<rootKind, root>>
procvars == <<pc, resume, model_config, data_config, experiment_folder,
              flags, ret, err, registry, declared, argv>>

NoRet == [folder |-> <<>>, checkpoint |-> <<>>]

RunNames(k) == {Str(i) : i \in 1..k}

\* the roots a first call can meet
InitRoots ==
  {[kind |-> "absent", junk |-> {}, prior |-> 0],
   [kind |-> "file",   junk |-> {}, prior |-> 0]}
  \cup
  {[kind |-> "dir", junk |-> j, prior |-> k] :
     j \in {{}, {RESERVED_UNDERSCORE, RESERVED_DOT}, {NOT_A_NUMBER}},
     k \in PriorRunCounts}

InitProcs ==
  /\ pc = [p \in Procs |-> "idle"]
  /\ resume = [p \in Procs |-> FALSE]
  /\ model_config = [p \in Procs |-> ModelPy]
  /\ data_config = [p \in Procs |-> DataPy]
  /\ experiment_folder = [p \in Procs |-> <<>>]
  /\ flags = [p \in Procs |-> EmptyDict]
  /\ ret = [p \in Procs |-> NoRet]
  /\ err = [p \in Procs |-> "none"]
  /\ registry = [p \in Procs |-> EmptyDict]
  /\ declared = [p \in Procs |-> {}]
  /\ argv = [p \in Procs |-> {}]

Init ==
  /\ \E r \in InitRoots :
       /\ rootKind = r.kind
       /\ root = [n \in r.junk \cup RunNames(r.prior) |->
                    IF n \in r.junk THEN EmptyFolder ELSE PriorFolder]
       /\ made = r.prior
  /\ InitProcs
  /\ model_files = <<>>
  /\ calls = 0

\* ------------------------------------------------------------- operations
AtRest(p) == pc[p] \in {"idle", "done", "failed"}

\* raise e out of init_checkpoint
Raise(p, e) ==
  /\ pc' = [pc EXCEPT ![p] = "failed"]
  /\ err' = [err EXCEPT ![p] = e]

Goto(p, l) ==
  /\ pc' = [pc EXCEPT ![p] = l]
  /\ err' = err

\* A script calls init_checkpoint(checkpoint_dir, data_config, model_config,
\* resume), possibly after set_flags appended arguments to sys.argv. What the
\* process imported and parsed in earlier calls stays as it is.
Call(p, r, mc, dc, extra) ==
  /\ AtRest(p)
  /\ calls < MaxCalls
  /\ calls' = calls + 1
  /\ made' = IF r THEN made ELSE made + 1
  /\ resume' = [resume EXCEPT ![p] = r]
  /\ model_config' = [model_config EXCEPT ![p] = mc]
  /\ data_config' = [data_config EXCEPT ![p] = dc]
  /\ argv' = [argv EXCEPT ![p] = @ \cup extra]
  /\ experiment_folder' = [experiment_folder EXCEPT ![p] = <<>>]
  /\ flags' = [flags EXCEPT ![p] = EmptyDict]
  /\ ret' = [ret EXCEPT ![p] = NoRet]
  /\ Goto(p, "exists")
  /\ UNCHANGED <<rootKind, root, registry, declared, model_files>>

\* two scripts are started side by side; each calls init_checkpoint once
CallOnce(p, r, mc, dc, extra) ==
  /\ pc[p] = "idle"
  /\ Call(p, r, mc, dc, extra)

\* the check of lines 81-89 without the test of resume
ExistsNoResumeCheck(p) ==
  /\ pc[p] = "exists"
  /\ IF rootKind = "absent" THEN Goto(p, "makedirs")
       ELSE IF rootKind = "file" THEN Raise(p, "ValueError")
       ELSE Goto(p, "listdir")
  /\ UNCHANGED <<rootKind, root, resume, model_config, data_config,
                 experiment_folder, flags, ret, registry, declared, argv,
                 model_files, made, calls>>

\* lines 81-89: os.path.exists / os.path.isdir
Exists(p) ==
  /\ pc[p] = "exists"
  /\ IF rootKind = "absent"
       THEN IF resume[p] THEN Raise(p, "ValueError") ELSE Goto(p, "makedirs")
       ELSE IF rootKind = "file" THEN Raise(p, "ValueError")
       ELSE Goto(p, "listdir")
  /\ UNCHANGED <<rootKind, root, resume, model_config, data_config,
                 experiment_folder, flags, ret, registry, declared, argv,
                 model_files, made, calls>>

\* line 86: os.makedirs fails when the directory exists by now
Makedirs(p) ==
  /\ pc[p] = "makedirs"
  /\ IF rootKind = "absent"
       THEN rootKind' = "dir" /\ Goto(p, "listdir")
       ELSE rootKind' = rootKind /\ Raise(p, "OSError")
  /\ UNCHANGED <<root, resume, model_config, data_config,
                 experiment_folder, flags, ret, registry, declared, argv,
                 model_files, made, calls>>

\* lines 92-93: the entries that do not start with '_' or '.'
ExperimentFolders(entries) ==
  {f \in entries : f[1] # "_" /\ f[1] # "."}

\* sorted() without the key: the order of the names as strings
LastSortedLex(names) ==
  CHOOSE x \in names : \A y \in names : LexLeq(y, x)

\* line 96: sorted(experiment_folders, key=lambda x: int(x))[-1]
LastSorted(names) ==
  CHOOSE x \in names : \A y \in names : ToInt(y) <= ToInt(x)

\* numbering that starts at 0 in an empty root
FolderNumberFromZero(names, r) ==
  IF names # {}
    THEN IF r THEN ToInt(LastSorted(names)) ELSE ToInt(LastSorted(names)) + 1
    ELSE 0

\* lines 95-104, for a listing int() accepts
FolderNumber(names, r) ==
  IF names # {}
    THEN IF r THEN ToInt(LastSorted(names)) ELSE ToInt(LastSorted(names)) + 1
    ELSE 1

\* lines 92-106: list the root, pick the folder number, build the path
Listdir(p) ==
  /\ pc[p] = "listdir"
  /\ LET names == ExperimentFolders(DOMAIN root)
     IN IF names # {} /\ \E f \in names : ~IsInt(f)
          THEN Raise(p, "ValueError") /\ experiment_folder' = experiment_folder
          ELSE IF names = {} /\ resume[p]
          THEN Raise(p, "ValueError") /\ experiment_folder' = experiment_folder
          ELSE /\ experiment_folder' =
                    [experiment_folder EXCEPT ![p] = Str(FolderNumber(names, resume[p]))]
               /\ Goto(p, "mkdir")
  /\ UNCHANGED <<rootKind, root, resume, model_config, data_config,
                 flags, ret, registry, declared, argv,
                 model_files, made, calls>>

\* a mkdir that accepts an existing folder
MkdirExistOk(entries, name) == TRUE

\* os.mkdir(name) succeeds only when no entry of that name exists
MkdirSucceeds(entries, name) == name \notin entries

\* lines 107-108
Mkdir(p) ==
  /\ pc[p] = "mkdir"
  /\ IF resume[p]
       THEN root' = root /\ Goto(p, "load")
       ELSE IF MkdirSucceeds(DOMAIN root, experiment_folder[p])
       THEN /\ root' = [n \in (DOMAIN root) \cup {experiment_folder[p]} |->
                          IF n = experiment_folder[p] THEN EmptyFolder ELSE root[n]]
            /\ Goto(p, "load")
       ELSE root' = root /\ Raise(p, "OSError")
  /\ UNCHANGED <<rootKind, resume, model_config, data_config,
                 experiment_folder, flags, ret, registry, declared, argv,
                 model_files, made, calls>>

\* lines 177-198: a path ending in .py must exist to be imported
Importable(src) == src.kind # "missing"

\* lines 115, 201-208: import model_config, then data_config; importing a
\* config module declares its flags
LoadFlags(p) ==
  /\ pc[p] = "load"
  /\ IF ~Importable(model_config[p])
       THEN declared' = declared /\ Raise(p, "RuntimeError")
       ELSE IF ~Importable(data_config[p])
       THEN /\ declared' = [declared EXCEPT ![p] = @ \cup model_config[p].declares]
            /\ Raise(p, "RuntimeError")
       ELSE /\ declared' = [declared EXCEPT ![p] =
                              @ \cup model_config[p].declares \cup data_config[p].declares]
            /\ Goto(p, "parse")
  /\ UNCHANGED <<rootKind, root, resume, model_config, data_config,
                 experiment_folder, flags, ret, registry, argv,
                 model_files, made, calls>>

\* the registry's _parse_flags: every declared flag takes the value given
\* on the command line, or its default; the other arguments are passed through
ParsedValues(decl, args) ==
  [k \in decl |-> IF \E a \in args : a.k = k
                    THEN (CHOOSE a \in args : a.k = k).v
                    ELSE FlagDefault[k]]

Passthrough(decl, args) == {a \in args : a.k \notin decl}

\* lines 211-223: values already in the registry survive the new parse
parse_flags(old, decl, args) ==
  DictUpdate(DictUpdate(old, ParsedValues(decl, args)), old)

\* lines 251-254: every argument of the model is spelled --k=v
NotParsed(args) == args

\* lines 116-117: parse_flags(), then assert_all_flags_parsed()
ParseFlags(p) ==
  /\ pc[p] = "parse"
  /\ registry' = [registry EXCEPT ![p] = parse_flags(@, declared[p], argv[p])]
  /\ flags' = [flags EXCEPT ![p] = registry'[p]]
  /\ argv' = [argv EXCEPT ![p] = Passthrough(declared[p], @)]
  /\ IF NotParsed(argv'[p]) # {}
       THEN Raise(p, "RuntimeError")
       ELSE Goto(p, IF resume[p] THEN "restore" ELSE "store")
  /\ UNCHANGED <<rootKind, root, resume, model_config, data_config,
                 experiment_folder, ret, declared,
                 model_files, made, calls>>

\* os.listdir of a run folder
Listing(folder) ==
  folder.files \cup folder.configs
    \cup (IF folder.flagfile # <<>> THEN {FLAG_FILE} ELSE {})

\* the smallest iteration number
MinKey(m) == CHOOSE i \in DOMAIN m : \A j \in DOMAIN m : i <= j

\* line 127: max(model_files.keys())
MaxKey(m) == SetMax(DOMAIN m)

\* a resume that stores the merged flags back into the Flag File
RestoreRewrites(p) ==
  /\ pc[p] = "restore"
  /\ LET dir == experiment_folder[p]
     IN IF root[dir].flagfile = <<>>
          THEN /\ Raise(p, "IOError")
               /\ UNCHANGED <<flags, registry, ret, root>>
          ELSE /\ flags' = [flags EXCEPT ![p] = DictUpdate(@, root[dir].flagfile[1])]
               /\ registry' = [registry EXCEPT ![p] = flags'[p]]
               /\ root' = [root EXCEPT ![dir].flagfile = <<flags'[p]>>]
               /\ \E m \in find_model_files(dir, Listing(root[dir])) :
                    ret' = [ret EXCEPT ![p] =
                              [folder |-> dir,
                               checkpoint |-> IF DOMAIN m # {} THEN <<m[MaxKey(m)]>> ELSE <<>>]]
               /\ Goto(p, "done")
  /\ UNCHANGED <<rootKind, resume, model_config, data_config,
                 experiment_folder, declared, argv,
                 model_files, made, calls>>

\* lines 122-127 and 146: json_load of the Flag File (IOError when it is not
\* there), flags.update, _restore_flags, find_model_files, return
Restore(p) ==
  /\ pc[p] = "restore"
  /\ LET dir == experiment_folder[p]
     IN IF root[dir].flagfile = <<>>
          THEN /\ Raise(p, "IOError")
               /\ UNCHANGED <<flags, registry, ret>>
          ELSE /\ flags' = [flags EXCEPT ![p] = DictUpdate(@, root[dir].flagfile[1])]
               /\ registry' = [registry EXCEPT ![p] = flags'[p]]
               /\ \E m \in find_model_files(dir, Listing(root[dir])) :
                    ret' = [ret EXCEPT ![p] =
                              [folder |-> dir,
                               checkpoint |-> IF DOMAIN m # {} THEN <<m[MaxKey(m)]>> ELSE <<>>]]
               /\ Goto(p, "done")
  /\ UNCHANGED <<rootKind, root, resume, model_config, data_config,
                 experiment_folder, declared, argv,
                 model_files, made, calls>>

\* lines 131-135: only subprocess.CalledProcessError is caught
GitCaught(g) == g = "CalledProcessError"

\* lines 131-138: flags['git_commit'] = ..., json_store(flag_path, flags);
\* flags is the registry's own dict, so the key lands in the registry too
Store(p, g) ==
  /\ pc[p] = "store"
  /\ IF g # "hash" /\ ~GitCaught(g)
       THEN /\ Raise(p, g)
            /\ UNCHANGED <<flags, registry, root>>
       ELSE /\ flags' = [flags EXCEPT ![p] =
                           IF g = "hash"
                             THEN DictUpdate(@, [k \in {"git_commit"} |-> GIT_HASH])
                             ELSE @]
            /\ registry' = [registry EXCEPT ![p] = flags'[p]]
            /\ root' = [root EXCEPT ![experiment_folder[p]].flagfile = <<flags'[p]>>]
            /\ Goto(p, "copy")
  /\ UNCHANGED <<rootKind, resume, model_config, data_config,
                 experiment_folder, ret, declared, argv,
                 model_files, made, calls>>

\* shutil.copy(src, dst) needs src to be a file
Copyable(src) == src.kind = "py"

\* lines 141-146: copy model_config, then data_config, then return
CopyConfigs(p) ==
  /\ pc[p] = "copy"
  /\ LET dir == experiment_folder[p]
     IN IF ~Copyable(model_config[p])
          THEN root' = root /\ ret' = ret /\ Raise(p, "IOError")
          ELSE IF ~Copyable(data_config[p])
          THEN /\ root' = [root EXCEPT ![dir].configs = @ \cup {basename(model_config[p])}]
               /\ ret' = ret
               /\ Raise(p, "IOError")
          ELSE /\ root' = [root EXCEPT ![dir].configs =
                             @ \cup {basename(model_config[p]), basename(data_config[p])}]
               /\ ret' = [ret EXCEPT ![p] = [folder |-> dir, checkpoint |-> <<>>]]
               /\ Goto(p, "done")
  /\ UNCHANGED <<rootKind, resume, model_config, data_config,
                 experiment_folder, flags, registry, declared, argv,
                 model_files, made, calls>>

\* The training loop that got a run folder from init_checkpoint writes a
\* checkpoint artifact into it.
SaveCheckpoint(p, f) ==
  /\ pc[p] = "done"
  /\ f \notin root[ret[p].folder].files
  /\ Cardinality(UNION {{<<n, g>> : g \in root[n].files} : n \in DOMAIN root}) < MaxCkpts
  /\ root' = [root EXCEPT ![ret[p].folder].files = @ \cup {f}]
  /\ UNCHANGED <<rootKind, procvars, model_files, made, calls>>

\* A caller uses find_model_files on its own (lines 153-159).
FindModelFiles(d) ==
  /\ d \in DOMAIN root
  /\ \E m \in find_model_files(d, Listing(root[d])) : model_files' = <<m>>
  /\ UNCHANGED <<fsvars, procvars, made, calls>>

\* ------------------------------------------------------- specifications
Steps(p) ==
  \/ Exists(p)
  \/ Makedirs(p)
  \/ Listdir(p)
  \/ Mkdir(p)
  \/ LoadFlags(p)
  \/ ParseFlags(p)
  \/ Restore(p)
  \/ \E g \in GitOutcomes : Store(p, g)
  \/ CopyConfigs(p)
  \/ \E f \in TrainNames : SaveCheckpoint(p, f)

\* calls made one after the other
Next ==
  \/ \E p \in SeqProcs, r \in BOOLEAN, mc \in ModelConfigs,
        dc \in DataConfigs, extra \in ArgChoices : Call(p, r, mc, dc, extra)
  \/ \E p \in SeqProcs : Steps(p)

Spec == Init /\ [][Next]_vars

\* calls of different processes interleaved at every filesystem access
NextRace ==
  \/ \E p \in Procs, r \in BOOLEAN, mc \in ModelConfigs, dc \in DataConfigs,
        extra \in ArgChoices : CallOnce(p, r, mc, dc, extra)
  \/ \E p \in Procs : Steps(p)

SpecRace == Init /\ [][NextRace]_vars

\* find_model_files on its own, over every content of one run folder
InitFind ==
  /\ rootKind = "dir"
  /\ \E S \in SUBSET CkptNames :
       root = [n \in RunNames(1) |->
                 [flagfile |-> <<PriorFlags>>, configs |-> {MODEL_PY, DATA_PY}, files |-> S]]
  /\ made = 1
  /\ InitProcs
  /\ model_files = <<>>
  /\ calls = 0

NextFind == \E d \in DOMAIN root : FindModelFiles(d)

SpecFind == InitFind /\ [][NextFind]_vars

\* --------------------------------------------------------------- claims
\* the run folders of the root and how many there are
RunFolders == ExperimentFolders(DOMAIN root)

NumRuns == Cardinality(RunFolders)

\* process p takes a step of init_checkpoint that leaves position l
Leaves(p, l) == pc[p] = l /\ pc'[p] # l

StartedEmpty == rootKind # "file" /\ DOMAIN root = RunFolders /\ \A f \in RunFolders : IsInt(f)

C3_ResumeNeedsRun ==
  [][\A p \in Procs :
       resume[p] =>
         /\ (Leaves(p, "exists") /\ rootKind = "absent") =>
              pc'[p] = "failed" /\ err'[p] = "ValueError" /\ UNCHANGED fsvars
         /\ (Leaves(p, "exists") /\ rootKind = "dir") =>
              pc'[p] = "listdir" /\ UNCHANGED fsvars
         /\ (Leaves(p, "listdir") /\ ~\E f \in DOMAIN root : IsInt(f)) =>
              pc'[p] = "failed" /\ err'[p] = "ValueError" /\ UNCHANGED fsvars]_vars

\* a resuming call failed on a root that holds only reserved entries
C3_Witness ==
  \E p \in Procs :
     /\ pc[p] = "failed" /\ resume[p] /\ err[p] = "ValueError"
     /\ rootKind = "dir"
     /\ DOMAIN root = {RESERVED_UNDERSCORE, RESERVED_DOT}

\* C4: a failed non-resuming call leaves no run folder behind, and between
\* calls every run folder holds its Flag File.
C4_NoPartialSuccess ==
  /\ \A p \in Procs :
       (pc[p] = "failed" /\ ~resume[p]) => experiment_folder[p] \notin DOMAIN root
  /\ (\A p \in Procs : AtRest(p)) =>
       \A n \in RunFolders : IsInt(n) => root[n].flagfile # <<>>

\* C5: when a resuming call returns, the registry holds the Flag File's value
\* for every key of the Flag File and the parsed value for every other
\* parsed key, and no other key.
C5_RestoredOverParsed ==
  [][\A p \in Procs :
       (pc[p] = "restore" /\ pc'[p] = "done") =>
         LET file   == root[experiment_folder[p]].flagfile[1]
             parsed == flags[p]
         IN /\ DOMAIN registry'[p] = (DOMAIN file) \cup (DOMAIN parsed)
            /\ \A k \in DOMAIN file : registry'[p][k] = file[k]
            /\ \A k \in (DOMAIN parsed) \ (DOMAIN file) :
                 registry'[p][k] = parsed[k]]_vars

\* a resumed run whose Flag File says lr=2 and nothing about bs: the
\* registry holds lr=2 from the file and bs from the parse
C5_Witness ==
  \E p \in Procs :
     /\ pc[p] = "done" /\ resume[p]
     /\ root[ret[p].folder].flagfile = <<PriorFlags>>
     /\ "bs" \in DOMAIN registry[p]
     /\ registry[p]["lr"] = "2"
     /\ registry[p]["bs"] = FlagDefault["bs"]

\* an entry of a run folder that is a checkpoint file, and its iteration
IsCheckpointEntry(f) == PatternSearch(StripIndex(f))

EntryIteration(f) == extract_itr_from_modelfile(StripIndex(f))

C7_ValuesArePresentEntries ==
  model_files # <<>> =>
    \A d \in DOMAIN root :
      LET m       == model_files[1]
          listing == Listing(root[d])
      IN /\ DOMAIN m = {EntryIteration(f) : f \in {e \in listing : IsCheckpointEntry(e)}}
         /\ \A i \in DOMAIN m : m[i].dir = d /\ m[i].name \in listing

\* C7 amended: one key per iteration number among the checkpoint entries,
\* and every value is the path of such an entry of that iteration with
\* '.index' removed from its name.
C7_ValuesAreStrippedEntries ==
  model_files # <<>> =>
    \A d \in DOMAIN root :
      LET m       == model_files[1]
          listing == Listing(root[d])
      IN /\ DOMAIN m = {EntryIteration(f) : f \in {e \in listing : IsCheckpointEntry(e)}}
         /\ \A i \in DOMAIN m :
              \E f \in listing :
                 /\ IsCheckpointEntry(f)
                 /\ EntryIteration(f) = i
                 /\ m[i] = Join(d, StripIndex(f))

\* the folder a.ckpt-5, a.ckpt-5.index, b.ckpt-12 gives {5: a.ckpt-5, 12: b.ckpt-12}
C7_Witness ==
  /\ root[Str(1)].files = {A_5, A_5_INDEX, B_12}
  /\ model_files # <<>>
  /\ DOMAIN model_files[1] = {5, 12}
  /\ model_files[1][5] = Join(Str(1), A_5)
  /\ model_files[1][12] = Join(Str(1), B_12)

\* C8: whatever the outcome of the revision-hash lookup, the step that stores
\* the flags does not raise: it goes on to the copy of the config files with
\* the Flag File written.
C8_GitBestEffort ==
  [][\A p \in Procs :
       Leaves(p, "store") =>
         /\ pc'[p] = "copy"
         /\ root'[experiment_folder[p]].flagfile # <<>>]_vars

\* C9: no step of a resuming call changes the filesystem, and a Flag File,
\* once written, is never changed or removed by any step.
C9_ResumeWritesNothing ==
  [][/\ \A p \in Procs :
          (resume[p] /\ ~AtRest(p) /\ pc'[p] # pc[p]) => UNCHANGED fsvars
     /\ DOMAIN root \subseteq DOMAIN root'
     /\ \A n \in DOMAIN root :
          root[n].flagfile # <<>> => root'[n].flagfile = root[n].flagfile]_vars

\* folder 9 resumed: its Flag File is as written by the run that made it,
\* although the registry now holds the merged flags
C9_Witness ==
  \E p \in Procs :
     /\ pc[p] = "done" /\ resume[p]
     /\ ret[p].folder = Str(9)
     /\ root[Str(9)].flagfile = <<PriorFlags>>
     /\ registry[p] # PriorFlags

\* C10: two non-resuming calls never both return the same run folder, and a
\* Flag File once written is not overwritten.
C10_RaceOneWinner ==
  /\ [](\A p, q \in Procs :
          (p # q /\ pc[p] = "done" /\ pc[q] = "done" /\ ~resume[p] /\ ~resume[q])
            => ret[p].folder # ret[q].folder)
  /\ [][\A n \in DOMAIN root :
          root[n].flagfile # <<>> =>
            n \in DOMAIN root' /\ root'[n].flagfile = root[n].flagfile]_vars

\* both computed the same folder; one returned it, the other's mkdir failed
C10_Witness ==
  \E p, q \in Procs :
     /\ p # q /\ ~resume[p] /\ ~resume[q]
     /\ experiment_folder[p] = experiment_folder[q]
     /\ experiment_folder[p] # <<>>
     /\ pc[p] = "done" /\ ret[p].folder = experiment_folder[p]
     /\ pc[q] = "failed" /\ err[q] = "OSError"

====
